---- MODULE Spec2Model ----
(***************************************************************************)
(* A model of sniproxy's core (proxy.go): the listener's accept loop, the  *)
(* per-connection dispatcher, the alert emitter, the route matcher and the *)
(* access controller.                                                      *)
(*                                                                         *)
(* Addresses are AddrBits-bit integers, a subnet is a base address and a   *)
(* prefix length.  Hostnames are sequences of characters (small naturals), *)
(* a compiled pattern is a sequence of tokens with optional anchors.       *)
(* Sockets are modelled by the byte sequences read from and written to     *)
(* them.                                                                   *)
(***************************************************************************)
EXTENDS Integers, Sequences, FiniteSets, TLC

VARIABLES
    Config,     \* p.Config.Routes: the ordered routes, read-only after load
    listener,   \* ListenAndServe: "listening" or "returned"
    pending,    \* clients that have connected and wait in the accept queue
    sess,       \* one record per accepted connection (its dispatchConn task)
    call,       \* a direct call of Match or clientAllowed: its arguments
    ret         \* ... and its result

vars == <<Config, listener, pending, sess, call, ret>>

----------------------------------------------------------------------------
(* Bounds of the model *)

AddrBits == 2      \* width of a modelled IP address
MaxAcl == 3        \* subnets in the allow and deny lists drawn for clientAllowed
MaxRoutes == 2     \* longest route list drawn for Match
MaxDomains == 2    \* longest domain list drawn for Match
MaxHostLen == 2    \* longest hostname drawn for Match
MaxData == 1       \* bytes a client sends after its ClientHello / a backend replies
MaxConns == 2      \* clients that connect to the listener

----------------------------------------------------------------------------
(* Addresses and subnets (net.IP, net.IPNet) *)

RECURSIVE Pow2(_)
Pow2(n) == IF n = 0 THEN 1 ELSE 2 * Pow2(n - 1)

IPs == 0 .. (Pow2(AddrBits) - 1)

Subnets ==
    { [ip |-> b * Pow2(AddrBits - l), len |-> l] :
        <<b, l>> \in { <<b, l>> \in IPs \X (0 .. AddrBits) : b < Pow2(l) } }

\* subnet.Contains(ip): ip and the subnet's address agree under the mask
Contains(subnet, ip) ==
    ip \div Pow2(AddrBits - subnet.len) = subnet.ip \div Pow2(AddrBits - subnet.len)

\* sz, _ := subnet.Mask.Size()
MaskSize(subnet) == subnet.len

----------------------------------------------------------------------------
(* Access controller *)

\* first loop of clientAllowed: the longest allow prefix containing ip
RECURSIVE AllowScan(_, _, _)
AllowScan(allow, ip, cidr) ==
    IF allow = <<>> THEN cidr
    ELSE LET subnet == Head(allow)
             sz == MaskSize(subnet)
         IN  AllowScan(Tail(allow), ip,
                       IF Contains(subnet, ip) /\ sz > cidr THEN sz ELSE cidr)

DenyScanStrict(deny, ip, cidr) ==
    \A i \in 1 .. Len(deny) : ~(Contains(deny[i], ip) /\ MaskSize(deny[i]) > cidr)

\* second loop of clientAllowed: FALSE at the first deny subnet that contains
\* ip with a prefix at least as long as cidr
RECURSIVE DenyScan(_, _, _)
DenyScan(deny, ip, cidr) ==
    IF deny = <<>> THEN TRUE
    ELSE LET subnet == Head(deny)
             sz == MaskSize(subnet)
         IN  IF Contains(subnet, ip) /\ sz >= cidr THEN FALSE
             ELSE DenyScan(Tail(deny), ip, cidr)

clientAllowedAllowRequired(route, ip) ==
    IF Len(route.Allow) = 0 /\ Len(route.Deny) = 0 THEN TRUE
    ELSE IF Len(route.Allow) > 0 /\ \A i \in 1 .. Len(route.Allow) : ~Contains(route.Allow[i], ip)
         THEN FALSE
         ELSE DenyScan(route.Deny, ip, AllowScan(route.Allow, ip, 0))

clientAllowedDefaultDeny(route, ip) ==
    /\ \E i \in 1 .. Len(route.Allow) : Contains(route.Allow[i], ip)
    /\ DenyScan(route.Deny, ip, AllowScan(route.Allow, ip, 0))

clientAllowedStrictTie(route, ip) ==
    IF Len(route.Allow) = 0 /\ Len(route.Deny) = 0 THEN TRUE
    ELSE DenyScanStrict(route.Deny, ip, AllowScan(route.Allow, ip, 0))

clientAllowed(route, ip) ==
    IF Len(route.Allow) = 0 /\ Len(route.Deny) = 0 THEN TRUE
    ELSE DenyScan(route.Deny, ip, AllowScan(route.Allow, ip, 0))

----------------------------------------------------------------------------
(* Route matcher *)

\* A compiled pattern (regexp.Regexp): tokens are a literal character or ".*",
\* bol and eol are the anchors ^ and $.
Lit(c) == [star |-> FALSE, ch |-> c]
DotStar == [star |-> TRUE, ch |-> 0]

\* the tokens match the whole of s
RECURSIVE FullMatch(_, _)
FullMatch(toks, s) ==
    IF toks = <<>> THEN s = <<>>
    ELSE IF Head(toks).star
         THEN \E k \in 0 .. Len(s) : FullMatch(Tail(toks), SubSeq(s, k + 1, Len(s)))
         ELSE s # <<>> /\ Head(s) = Head(toks).ch /\ FullMatch(Tail(toks), Tail(s))

MatchStringSearch(re, s) ==
    \E i \in 0 .. Len(s) : \E j \in i .. Len(s) :
        FullMatch(re.toks, SubSeq(s, i + 1, j))

\* domain.MatchString(sni): s contains a match of the pattern
MatchString(re, s) ==
    \E i \in 0 .. Len(s) : \E j \in i .. Len(s) :
        /\ re.bol => i = 0
        /\ re.eol => j = Len(s)
        /\ FullMatch(re.toks, SubSeq(s, i + 1, j))

\* inner loop of Match: some domain of the route matches
RECURSIVE DomainScan(_, _)
DomainScan(domains, sni) ==
    IF domains = <<>> THEN FALSE
    ELSE IF MatchString(Head(domains), sni) THEN TRUE
         ELSE DomainScan(Tail(domains), sni)

RECURSIVE RouteScanLast(_, _, _)
RouteScanLast(routes, i, sni) ==
    IF i > Len(routes) THEN 0
    ELSE LET later == RouteScanLast(routes, i + 1, sni)
         IN  IF later # 0 THEN later
             ELSE IF DomainScan(routes[i].Domains, sni) THEN i ELSE 0

\* outer loop of Match: the index of the first route with a matching domain,
\* 0 when the loop falls through
RECURSIVE RouteScan(_, _, _)
RouteScan(routes, i, sni) ==
    IF i > Len(routes) THEN 0
    ELSE IF DomainScan(routes[i].Domains, sni) THEN i
         ELSE RouteScan(routes, i + 1, sni)

NoError == [nil |-> TRUE, msg |-> "", arg |-> <<>>]
NoRouteError(sni) ==
    [nil |-> FALSE, msg |-> "No route matching the requested domain", arg |-> sni]

MatchDefaultRoute(routes, sni) ==
    LET i == RouteScan(routes, 1, sni)
    IN  IF i # 0 THEN [route |-> i, err |-> NoError]
        ELSE IF routes # <<>> THEN [route |-> 1, err |-> NoError]
        ELSE [route |-> 0, err |-> NoRouteError(sni)]

MatchLast(routes, sni) ==
    LET i == RouteScanLast(routes, 1, sni)
    IN  IF i # 0 THEN [route |-> i, err |-> NoError]
        ELSE [route |-> 0, err |-> NoRouteError(sni)]

\* Match returns (route, nil) or (nil, error); a route pointer is the route's
\* index in Config.Routes, nil is 0
Match(routes, sni) ==
    LET i == RouteScan(routes, 1, sni)
    IN  IF i # 0 THEN [route |-> i, err |-> NoError]
        ELSE [route |-> 0, err |-> NoRouteError(sni)]

----------------------------------------------------------------------------
(* Alert emitter *)

tlsAccessDenied == 49
tlsInternalError == 80
tlsUnrecognizedName == 112

\* message := bytes.NewBuffer([]byte{21, 3, 0, 0, 2, 2}); message.WriteByte(desc)
AlertMessage(desc) == <<21, 3, 0, 0, 2, 2>> \o <<desc>>

\* alert(conn, desc) on session s.  The outcome o is the environment's:
\* "nodeadline" (SetWriteDeadline failed: return before writing), "short"
\* (WriteTo failed after k bytes) or "sent" (the record was written).
AlertOutcomes == {"nodeadline", "short", "sent"}

alertNoDeadlineCheck(s, desc, o, k) ==
    LET message == AlertMessage(desc)
    IN  [s EXCEPT !.alerts = Append(@, desc),
                  !.wdl = (o # "nodeadline"),
                  !.cliOut = @ \o (CASE o = "short" -> SubSeq(message, 1, k)
                                     [] OTHER -> message)]

alert(s, desc, o, k) ==
    LET message == AlertMessage(desc)
    IN  [s EXCEPT !.alerts = Append(@, desc),
                  !.wdl = (o # "nodeadline"),
                  !.cliOut = @ \o (CASE o = "sent" -> message
                                     [] o = "short" -> SubSeq(message, 1, k)
                                     [] OTHER -> <<>>)]

----------------------------------------------------------------------------
(* SNI extractor.  A miniature of the TLS framing: a record is a content   *)
(* type, a length and that many body bytes; the body of a handshake record *)
(* is a message type followed by extensions, each a type, a length and its *)
(* data; the server_name extension's data is the hostname.                 *)

RecordHandshake == 22
HelloClient == 1
ExtServerName == 0
RecordHeaderLen == 2

\* the ClientHello record that names host
Hello(host) == <<RecordHandshake, Len(host) + 3, HelloClient, ExtServerName, Len(host)>> \o host

\* walk the extensions for server_name
RECURSIVE parseExtensions(_)
parseExtensions(b) ==
    IF Len(b) = 0 THEN [sni |-> <<>>, err |-> "no SNI"]
    ELSE IF Len(b) < 2 THEN [sni |-> <<>>, err |-> "malformed extensions"]
    ELSE IF b[2] > Len(b) - 2 THEN [sni |-> <<>>, err |-> "extension overflow"]
    ELSE IF b[1] = ExtServerName THEN [sni |-> SubSeq(b, 3, 2 + b[2]), err |-> ""]
    ELSE parseExtensions(SubSeq(b, 3 + b[2], Len(b)))

\* extractSNI over the bytes the client sends.  n is the number of bytes it
\* read; a read that finds too few bytes ends in EOF when the client has
\* closed and in the read deadline's timeout otherwise.
extractSNI(stream, closes) ==
    LET short == IF closes THEN "EOF" ELSE "i/o timeout"
    IN  IF Len(stream) < RecordHeaderLen
        THEN [n |-> Len(stream), sni |-> <<>>, err |-> short]
        ELSE IF stream[1] # RecordHandshake
        THEN [n |-> RecordHeaderLen, sni |-> <<>>, err |-> "not a handshake"]
        ELSE IF Len(stream) < RecordHeaderLen + stream[2]
        THEN [n |-> Len(stream), sni |-> <<>>, err |-> short]
        ELSE LET n == RecordHeaderLen + stream[2]
                 body == SubSeq(stream, RecordHeaderLen + 1, n)
             IN  IF body = <<>> \/ body[1] # HelloClient
                 THEN [n |-> n, sni |-> <<>>, err |-> "not a ClientHello"]
                 ELSE [n |-> n] @@ parseExtensions(Tail(body))

----------------------------------------------------------------------------
(* Configuration and environment *)

ProxyNone == "none"

\* The hostname matchers of a route are compiled when the configuration is
\* loaded, each to match the whole hostname: the pattern between ^ and $.
Compile(toks) == [bol |-> TRUE, toks |-> toks, eol |-> TRUE]

ExactA == Compile(<<Lit(1)>>)              \* a
EndsB == Compile(<<DotStar, Lit(2)>>)      \* *b
AnyHost == Compile(<<DotStar>>)            \* *

OpenRoute ==
    [Domains |-> <<ExactA>>, Backend |-> "b1", SendProxy |-> ProxyNone,
     Allow |-> <<>>, Deny |-> <<>>]
GuardedRoute ==
    [Domains |-> <<EndsB>>, Backend |-> "b2", SendProxy |-> "v1",
     Allow |-> <<[ip |-> 0, len |-> 1]>>,
     Deny |-> <<[ip |-> 1, len |-> 2], [ip |-> 2, len |-> 1]>>]
CatchAllRoute ==
    [Domains |-> <<ExactA, AnyHost>>, Backend |-> "b3", SendProxy |-> "v2",
     Allow |-> <<[ip |-> 0, len |-> 0]>>, Deny |-> <<[ip |-> 3, len |-> 2]>>]

Configs == { <<OpenRoute, GuardedRoute>>, <<GuardedRoute, CatchAllRoute>> }

HostNames == { <<1>>, <<2>>, <<1, 1>> }

\* the first n bytes a client sends after its handshake / a backend replies
ClientData(n) == [i \in 1 .. n |-> 100 + i]
BackendData(n) == [i \in 1 .. n |-> 200 + i]

Streams ==
    { Hello(h) \o ClientData(n) : <<h, n>> \in HostNames \X (0 .. MaxData) }
    \cup { <<RecordHandshake, 6, HelloClient, 5, 0, ExtServerName, 1, 2>> \o ClientData(MaxData) }
    \cup { <<>>,                                                 \* silent client
           <<RecordHandshake, 4, HelloClient>>,                   \* truncated record
           <<23, 0>>,                                            \* not a handshake
           <<RecordHandshake, 1, 2>>,                             \* not a ClientHello
           <<RecordHandshake, 1, HelloClient>>,                   \* no server_name
           <<RecordHandshake, 3, HelloClient, ExtServerName, 5>> } \* overflow

\* the addresses clients connect from: the lowest four and the highest
ClientIPs == { ip \in IPs : ip < 4 \/ ip = Pow2(AddrBits) - 1 }

\* A client: its address, the bytes it sends, whether it closes after them;
\* the backend it would reach: whether it answers the dial, its reply and
\* whether it closes after it; and whether the calls on its sockets may fail
\* (faults).
Clients ==
    [ip : ClientIPs, stream : Streams, closes : BOOLEAN, answers : {TRUE},
     reply : { BackendData(n) : n \in 0 .. MaxData }, bcloses : BOOLEAN,
     faults : {TRUE}]
    \cup [ip : ClientIPs, stream : Streams, closes : BOOLEAN, answers : {FALSE},
          reply : {<<>>}, bcloses : {FALSE}, faults : {TRUE}]

\* The clients of the runs with several connections: one that is relayed
\* until both ends close, one whose relay never ends, one that never sends
\* its handshake, and one that names a host from another address.  Their
\* sockets do not fail.
ServeClients ==
    { [ip |-> 0, stream |-> Hello(<<1>>), closes |-> TRUE, answers |-> TRUE,
       reply |-> <<>>, bcloses |-> TRUE, faults |-> FALSE],
      [ip |-> 0, stream |-> Hello(<<1>>), closes |-> FALSE, answers |-> TRUE,
       reply |-> <<>>, bcloses |-> FALSE, faults |-> FALSE],
      [ip |-> 0, stream |-> <<>>, closes |-> FALSE, answers |-> TRUE,
       reply |-> <<>>, bcloses |-> FALSE, faults |-> FALSE],
      [ip |-> 1, stream |-> Hello(<<2>>), closes |-> TRUE, answers |-> TRUE,
       reply |-> <<>>, bcloses |-> TRUE, faults |-> FALSE] }

----------------------------------------------------------------------------
(* Connection session: the state of one dispatchConn task *)

NewSession(cl) ==
    [pc |-> "start",
     ip |-> cl.ip,            \* conn.RemoteAddr()
     cin |-> cl.stream,       \* bytes of the client not yet read
     closes |-> cl.closes,
     answers |-> cl.answers,  \* the backend answers a dial
     reply |-> cl.reply, bcloses |-> cl.bcloses,
     faults |-> cl.faults,    \* the calls on the sockets may fail
     open |-> TRUE,           \* the client socket is open
     deferred |-> <<>>,       \* the deferred calls
     rdl |-> FALSE,           \* a read deadline is set on conn
     wdl |-> FALSE,           \* a write deadline is set on conn
     keepalive |-> "unset",
     cread |-> <<>>,          \* bytes read from conn so far
     buf |-> <<>>,            \* var buf bytes.Buffer
     sni |-> <<>>,
     route |-> 0,
     up |-> "nil",            \* upstream: "nil", "open", "closed"
     dials |-> 0,
     uin |-> <<>>,            \* bytes of the backend not yet read
     uread |-> <<>>,          \* bytes read from upstream so far
     upOut |-> <<>>,          \* what was written to upstream
     cliOut |-> <<>>,         \* bytes written to conn
     c2u |-> "idle", c2uHold |-> <<>>,   \* io.Copy(upstream, conn)
     u2c |-> "idle", u2cHold |-> <<>>,   \* io.Copy(conn, upstream)
     alerts |-> <<>>,         \* descriptions alert was called with
     steps |-> <<>>]          \* the steps taken, each with its result

Data(b) == [kind |-> "data", val |-> b]
Header(mode) == [kind |-> "proxy", val |-> mode]
PartialHeader(mode) == [kind |-> "proxy-part", val |-> mode]

RECURSIVE DataItems(_)
DataItems(bytes) ==
    IF bytes = <<>> THEN <<>> ELSE <<Data(Head(bytes))>> \o DataItems(Tail(bytes))

Did(s, step, ok) == [s EXCEPT !.steps = Append(@, <<step, ok>>)]

ReturnLeakUpstream(s) ==
    [s EXCEPT !.pc = "done", !.open = FALSE]

\* return: the deferred conn.Close() and upstream.Close() run
Return(s) ==
    [s EXCEPT !.pc = "done",
              !.open = IF \E i \in DOMAIN s.deferred : s.deferred[i] = "conn"
                       THEN FALSE ELSE @,
              !.up = IF \E i \in DOMAIN s.deferred : s.deferred[i] = "upstream"
                     THEN "closed" ELSE @]

\* alert(conn, desc); log; return -- for every outcome of the alert
Abort(c, s, desc) ==
    \E o \in AlertOutcomes : \E k \in 0 .. (Len(AlertMessage(desc)) - 1) :
        /\ o # "short" => k = 0
        /\ o # "sent" => s.faults
        /\ sess' = [sess EXCEPT ![c] = Return(alert(s, desc, o, k))]

Goto(c, s, pc) == sess' = [sess EXCEPT ![c] = [s EXCEPT !.pc = pc]]

----------------------------------------------------------------------------
(* Listener: ListenAndServe *)

\* net.Listen succeeds, and l.Close() is deferred
Listen ==
    /\ listener.state = "init"
    /\ listener' = [listener EXCEPT !.state = "listening"]
    /\ UNCHANGED <<Config, pending, sess, call, ret>>

\* net.Listen fails: return err
ListenError ==
    /\ listener.state = "init"
    /\ listener' = [listener EXCEPT !.state = "returned", !.err = "listen"]
    /\ UNCHANGED <<Config, pending, sess, call, ret>>

AcceptSerial ==
    /\ listener.state = "listening"
    /\ pending # <<>>
    /\ \A c \in DOMAIN sess : sess[c].pc = "done"
    /\ sess' = Append(sess, NewSession(Head(pending)))
    /\ pending' = Tail(pending)
    /\ UNCHANGED <<Config, listener, call, ret>>

\* conn, err := l.Accept() succeeds; go p.dispatchConn(conn)
Accept ==
    /\ listener.state = "listening"
    /\ pending # <<>>
    /\ sess' = Append(sess, NewSession(Head(pending)))
    /\ pending' = Tail(pending)
    /\ UNCHANGED <<Config, listener, call, ret>>

AcceptErrorRetry ==
    /\ listener.state = "listening"
    /\ listener.err = ""
    /\ listener' = [listener EXCEPT !.err = "accept"]
    /\ UNCHANGED <<Config, pending, sess, call, ret>>

\* l.Accept() fails: return err, and the deferred l.Close() runs
AcceptError ==
    /\ listener.state = "listening"
    /\ listener' = [listener EXCEPT !.state = "returned", !.err = "accept", !.closed = TRUE]
    /\ UNCHANGED <<Config, pending, sess, call, ret>>

----------------------------------------------------------------------------
(* Dispatcher: dispatchConn, one action per step of connection c *)

SetReadDeadlineSkipped(c) ==
    /\ c \in DOMAIN sess
    /\ sess[c].pc = "start"
    /\ LET s == [sess[c] EXCEPT !.deferred = Append(@, "conn")]
       IN  \/ Goto(c, Did(s, "deadline", TRUE), "sniff")
           \/ s.faults /\ Abort(c, Did(s, "deadline", FALSE), tlsInternalError)
    /\ UNCHANGED <<Config, listener, pending, call, ret>>

\* defer conn.Close(); conn.SetReadDeadline(time.Now().Add(3*time.Second))
SetReadDeadline(c) ==
    /\ c \in DOMAIN sess
    /\ sess[c].pc = "start"
    /\ LET s == [sess[c] EXCEPT !.deferred = Append(@, "conn")]
       IN  \/ Goto(c, Did([s EXCEPT !.rdl = TRUE], "deadline", TRUE), "sniff")
           \/ s.faults /\ Abort(c, Did(s, "deadline", FALSE), tlsInternalError)
    /\ UNCHANGED <<Config, listener, pending, call, ret>>

ReadNoTee(s, n) ==
    [s EXCEPT !.cin = SubSeq(@, n + 1, Len(@)),
              !.cread = @ \o SubSeq(s.cin, 1, n),
              !.buf = @ \o SubSeq(s.cin, RecordHeaderLen + 1, n)]

\* io.TeeReader(conn, &buf): the bytes read from conn are written to buf
TeeRead(s, n) ==
    [s EXCEPT !.cin = SubSeq(@, n + 1, Len(@)),
              !.cread = @ \o SubSeq(s.cin, 1, n),
              !.buf = @ \o SubSeq(s.cin, 1, n)]

\* sni, err := extractSNI(io.TeeReader(conn, &buf)); a read that waits for
\* bytes the client does not send returns only when the read deadline expires
Sniff(c) ==
    /\ c \in DOMAIN sess
    /\ sess[c].pc = "sniff"
    /\ LET r == extractSNI(sess[c].cin, sess[c].closes)
           s == TeeRead(sess[c], r.n)
       IN  /\ r.err = "i/o timeout" => sess[c].rdl
           /\ IF r.err # ""
              THEN Abort(c, Did(s, "sniff", FALSE), tlsInternalError)
              ELSE Goto(c, Did([s EXCEPT !.sni = r.sni], "sniff", TRUE), "clear")
    /\ UNCHANGED <<Config, listener, pending, call, ret>>

ClearReadDeadlineKept(c) ==
    /\ c \in DOMAIN sess
    /\ sess[c].pc = "clear"
    /\ \/ Goto(c, Did(sess[c], "clear", TRUE), "keepalive")
       \/ sess[c].faults /\ Abort(c, Did(sess[c], "clear", FALSE), tlsInternalError)
    /\ UNCHANGED <<Config, listener, pending, call, ret>>

\* conn.SetReadDeadline(time.Time{})
ClearReadDeadline(c) ==
    /\ c \in DOMAIN sess
    /\ sess[c].pc = "clear"
    /\ \/ Goto(c, Did([sess[c] EXCEPT !.rdl = FALSE], "clear", TRUE), "keepalive")
       \/ sess[c].faults /\ Abort(c, Did(sess[c], "clear", FALSE), tlsInternalError)
    /\ UNCHANGED <<Config, listener, pending, call, ret>>

\* conn.SetKeepAlive(true); conn.SetKeepAlivePeriod(time.Minute): the errors
\* are dropped
KeepAlive(c) ==
    /\ c \in DOMAIN sess
    /\ sess[c].pc = "keepalive"
    /\ \E ok \in BOOLEAN :
          /\ ~ok => sess[c].faults
          /\ Goto(c, Did([sess[c] EXCEPT !.keepalive = IF ok THEN "on" ELSE "failed"],
                         "keepalive", ok), "route")
    /\ UNCHANGED <<Config, listener, pending, call, ret>>

RouteInternalError(c) ==
    /\ c \in DOMAIN sess
    /\ sess[c].pc = "route"
    /\ LET m == Match(Config, sess[c].sni)
       IN  IF ~m.err.nil
           THEN Abort(c, Did(sess[c], "route", FALSE), tlsInternalError)
           ELSE Goto(c, Did([sess[c] EXCEPT !.route = m.route], "route", TRUE), "authorize")
    /\ UNCHANGED <<Config, listener, pending, call, ret>>

\* route, err := p.Match(sni)
Route(c) ==
    /\ c \in DOMAIN sess
    /\ sess[c].pc = "route"
    /\ LET m == Match(Config, sess[c].sni)
       IN  IF ~m.err.nil
           THEN Abort(c, Did(sess[c], "route", FALSE), tlsUnrecognizedName)
           ELSE Goto(c, Did([sess[c] EXCEPT !.route = m.route], "route", TRUE), "authorize")
    /\ UNCHANGED <<Config, listener, pending, call, ret>>

AuthorizeNoReturn(c) ==
    /\ c \in DOMAIN sess
    /\ sess[c].pc = "authorize"
    /\ IF ~clientAllowed(Config[sess[c].route], sess[c].ip)
       THEN \E o \in AlertOutcomes :
               /\ o # "sent" => sess[c].faults
               /\ Goto(c, alert(Did(sess[c], "authorize", FALSE), tlsAccessDenied, o, 0), "dial")
       ELSE Goto(c, Did(sess[c], "authorize", TRUE), "dial")
    /\ UNCHANGED <<Config, listener, pending, call, ret>>

\* if !clientAllowed(route, client) { alert; log; return }
Authorize(c) ==
    /\ c \in DOMAIN sess
    /\ sess[c].pc = "authorize"
    /\ IF ~clientAllowed(Config[sess[c].route], sess[c].ip)
       THEN Abort(c, Did(sess[c], "authorize", FALSE), tlsAccessDenied)
       ELSE Goto(c, Did(sess[c], "authorize", TRUE), "dial")
    /\ UNCHANGED <<Config, listener, pending, call, ret>>

DialRetry(c) ==
    /\ c \in DOMAIN sess
    /\ sess[c].pc = "dial"
    /\ LET s == [sess[c] EXCEPT !.dials = @ + 1]
       IN  \/ /\ s.answers
              /\ Goto(c, Did([s EXCEPT !.up = "open", !.uin = s.reply,
                                       !.deferred = Append(@, "upstream")],
                             "dial", TRUE), "proxy")
           \/ /\ s.faults \/ ~s.answers
              /\ s.dials < 2
              /\ Goto(c, Did(s, "dial", FALSE), "dial")
           \/ /\ s.faults \/ ~s.answers
              /\ s.dials >= 2
              /\ Abort(c, Did(s, "dial", FALSE), tlsInternalError)
    /\ UNCHANGED <<Config, listener, pending, call, ret>>

\* net.DialTimeout("tcp", route.Backend, 3*time.Second); defer upstream.Close().
\* The dial of a backend that does not answer fails when the timeout expires.
Dial(c) ==
    /\ c \in DOMAIN sess
    /\ sess[c].pc = "dial"
    /\ LET s == [sess[c] EXCEPT !.dials = @ + 1]
       IN  \/ /\ s.answers
              /\ Goto(c, Did([s EXCEPT !.up = "open", !.uin = s.reply,
                                       !.deferred = Append(@, "upstream")],
                             "dial", TRUE), "proxy")
           \/ /\ s.faults \/ ~s.answers
              /\ Abort(c, Did(s, "dial", FALSE), tlsInternalError)
    /\ UNCHANGED <<Config, listener, pending, call, ret>>

ProxyHeaderAlways(c) ==
    /\ c \in DOMAIN sess
    /\ sess[c].pc = "proxy"
    /\ LET mode == Config[sess[c].route].SendProxy
       IN  \/ Goto(c, Did([sess[c] EXCEPT !.upOut = Append(@, Header(mode))],
                          "proxy", TRUE), "replay")
           \/ \E part \in { <<>>, <<PartialHeader(mode)>> } :
                 sess[c].faults /\
                 Abort(c, Did([sess[c] EXCEPT !.upOut = @ \o part], "proxy", FALSE),
                       tlsInternalError)
    /\ UNCHANGED <<Config, listener, pending, call, ret>>

\* if route.SendProxy != config.ProxyNone { proxyHeader(route, conn, upstream) }
ProxyHeader(c) ==
    /\ c \in DOMAIN sess
    /\ sess[c].pc = "proxy"
    /\ LET mode == Config[sess[c].route].SendProxy
       IN  IF mode = ProxyNone
           THEN Goto(c, sess[c], "replay")
           ELSE \/ Goto(c, Did([sess[c] EXCEPT !.upOut = Append(@, Header(mode))],
                               "proxy", TRUE), "replay")
                \/ \E part \in { <<>>, <<PartialHeader(mode)>> } :
                      sess[c].faults /\
                      Abort(c, Did([sess[c] EXCEPT !.upOut = @ \o part], "proxy", FALSE),
                            tlsInternalError)
    /\ UNCHANGED <<Config, listener, pending, call, ret>>

ReplayAsync(c) ==
    /\ c \in DOMAIN sess
    /\ sess[c].pc = "replay"
    /\ \/ /\ sess[c].c2u = "idle"
          /\ Goto(c, [sess[c] EXCEPT !.c2u = "read", !.u2c = "read"], "replay")
       \/ /\ sess[c].c2u # "idle"
          /\ Goto(c, Did([sess[c] EXCEPT !.upOut = @ \o DataItems(sess[c].buf), !.buf = <<>>],
                         "replay", TRUE), "wait")
    /\ UNCHANGED <<Config, listener, pending, call, ret>>

\* io.Copy(upstream, &buf): buf is drained into upstream; a failed copy has
\* written the first k bytes
Replay(c) ==
    /\ c \in DOMAIN sess
    /\ sess[c].pc = "replay"
    /\ \/ Goto(c, Did([sess[c] EXCEPT !.upOut = @ \o DataItems(sess[c].buf), !.buf = <<>>],
                      "replay", TRUE), "relay")
       \/ \E k \in 0 .. (Len(sess[c].buf) - 1) :
             sess[c].faults /\
             Abort(c, Did([sess[c] EXCEPT
                              !.upOut = @ \o DataItems(SubSeq(sess[c].buf, 1, k)),
                              !.buf = SubSeq(@, k + 1, Len(@))],
                          "replay", FALSE),
                   tlsInternalError)
    /\ UNCHANGED <<Config, listener, pending, call, ret>>

\* wg.Add(2); go func() {...}(); go func() {...}()
StartRelay(c) ==
    /\ c \in DOMAIN sess
    /\ sess[c].pc = "relay"
    /\ Goto(c, Did([sess[c] EXCEPT !.c2u = "read", !.u2c = "read"], "relay", TRUE), "wait")
    /\ UNCHANGED <<Config, listener, pending, call, ret>>

\* io.Copy(upstream, conn), reading: a byte, EOF once the client has closed,
\* or a read error; with no byte and an open client the read blocks
ClientRead(c) ==
    /\ c \in DOMAIN sess
    /\ sess[c].c2u = "read"
    /\ \/ /\ sess[c].cin # <<>>
          /\ sess' = [sess EXCEPT ![c] = [@ EXCEPT !.cin = Tail(@),
                                                   !.cread = Append(@, Head(sess[c].cin)),
                                                   !.c2uHold = <<Head(sess[c].cin)>>,
                                                   !.c2u = "write"]]
       \/ /\ sess[c].cin = <<>> /\ sess[c].closes
          /\ sess' = [sess EXCEPT ![c] = [@ EXCEPT !.c2u = "done"]]
       \/ /\ sess[c].faults
          /\ sess' = [sess EXCEPT ![c] = [@ EXCEPT !.c2u = "done"]]
    /\ UNCHANGED <<Config, listener, pending, call, ret>>

\* io.Copy(upstream, conn), writing what it read: written, or a write error
UpstreamWrite(c) ==
    /\ c \in DOMAIN sess
    /\ sess[c].c2u = "write"
    /\ \/ sess' = [sess EXCEPT ![c] = [@ EXCEPT !.upOut = @ \o DataItems(sess[c].c2uHold),
                                                !.c2uHold = <<>>, !.c2u = "read"]]
       \/ /\ sess[c].faults
          /\ sess' = [sess EXCEPT ![c] = [@ EXCEPT !.c2u = "done"]]
    /\ UNCHANGED <<Config, listener, pending, call, ret>>

\* io.Copy(conn, upstream), reading
UpstreamRead(c) ==
    /\ c \in DOMAIN sess
    /\ sess[c].u2c = "read"
    /\ \/ /\ sess[c].uin # <<>>
          /\ sess' = [sess EXCEPT ![c] = [@ EXCEPT !.uin = Tail(@),
                                                   !.uread = Append(@, Head(sess[c].uin)),
                                                   !.u2cHold = <<Head(sess[c].uin)>>,
                                                   !.u2c = "write"]]
       \/ /\ sess[c].uin = <<>> /\ sess[c].bcloses
          /\ sess' = [sess EXCEPT ![c] = [@ EXCEPT !.u2c = "done"]]
       \/ /\ sess[c].faults
          /\ sess' = [sess EXCEPT ![c] = [@ EXCEPT !.u2c = "done"]]
    /\ UNCHANGED <<Config, listener, pending, call, ret>>

\* io.Copy(conn, upstream), writing what it read
ClientWrite(c) ==
    /\ c \in DOMAIN sess
    /\ sess[c].u2c = "write"
    /\ \/ sess' = [sess EXCEPT ![c] = [@ EXCEPT !.cliOut = @ \o sess[c].u2cHold,
                                                !.u2cHold = <<>>, !.u2c = "read"]]
       \/ /\ sess[c].faults
          /\ sess' = [sess EXCEPT ![c] = [@ EXCEPT !.u2c = "done"]]
    /\ UNCHANGED <<Config, listener, pending, call, ret>>

WaitOne(c) ==
    /\ c \in DOMAIN sess
    /\ sess[c].pc = "wait"
    /\ sess[c].c2u = "done" \/ sess[c].u2c = "done"
    /\ sess' = [sess EXCEPT ![c] = Return(@)]
    /\ UNCHANGED <<Config, listener, pending, call, ret>>

WaitThenAlert(c) ==
    /\ c \in DOMAIN sess
    /\ sess[c].pc = "wait"
    /\ sess[c].c2u = "done" /\ sess[c].u2c = "done"
    /\ sess' = [sess EXCEPT ![c] = Return(alert(@, tlsInternalError, "sent", 0))]
    /\ UNCHANGED <<Config, listener, pending, call, ret>>

\* wg.Wait() returns once both copies called wg.Done(); then the function returns
Wait(c) ==
    /\ c \in DOMAIN sess
    /\ sess[c].pc = "wait"
    /\ sess[c].c2u = "done" /\ sess[c].u2c = "done"
    /\ sess' = [sess EXCEPT ![c] = Return(@)]
    /\ UNCHANGED <<Config, listener, pending, call, ret>>

----------------------------------------------------------------------------
(* The proxy *)

\* the connections, in the order they were accepted
Conns == 1 .. MaxConns

NoCall == [fn |-> "none"]
NoRet == [set |-> FALSE]

InitListener == [state |-> "init", err |-> "", closed |-> FALSE]

\* one client connects, or MaxConns of the plainer clients
Arrivals ==
    { <<cl>> : cl \in Clients } \cup [1 .. MaxConns -> ServeClients]

Init ==
    /\ Config \in Configs
    /\ listener = InitListener
    /\ pending \in Arrivals
    /\ sess = <<>>
    /\ call = NoCall
    /\ ret = NoRet

Next ==
    \/ Listen
    \/ ListenError
    \/ Accept
    \/ AcceptError
    \/ \E c \in Conns :
          \/ SetReadDeadline(c)
          \/ Sniff(c)
          \/ ClearReadDeadline(c)
          \/ KeepAlive(c)
          \/ Route(c)
          \/ Authorize(c)
          \/ Dial(c)
          \/ ProxyHeader(c)
          \/ Replay(c)
          \/ StartRelay(c)
          \/ ClientRead(c)
          \/ UpstreamWrite(c)
          \/ UpstreamRead(c)
          \/ ClientWrite(c)
          \/ Wait(c)

Spec == Init /\ [][Next]_vars

\* The steps of dispatchConn up to the start of the relay.  None of them waits
\* without a bound: the sniff reads under the read deadline, the dial has a
\* timeout, alert writes under a write deadline.  A started goroutine keeps
\* being scheduled, so a step that stays possible is taken.
PipelineStep(c) ==
    \/ SetReadDeadline(c)
    \/ Sniff(c)
    \/ ClearReadDeadline(c)
    \/ KeepAlive(c)
    \/ Route(c)
    \/ Authorize(c)
    \/ Dial(c)
    \/ ProxyHeader(c)
    \/ Replay(c)
    \/ StartRelay(c)

Fairness == \A c \in Conns : WF_vars(PipelineStep(c))

\* The arrivals of the fair runs: one client from an admitted or a refused
\* address, with any stream, whose backend either does not answer or closes
\* after its reply; or MaxConns clients, each one silent or one relayed to
\* the end.
LiveArrivals ==
    { <<cl>> : cl \in { x \in Clients : x.ip \in {0, 1} /\ (x.bcloses \/ ~x.answers) } }
    \cup [1 .. MaxConns -> { x \in ServeClients : x.ip = 0 /\ (x.stream = <<>> \/ x.closes) }]

InitLive ==
    /\ Init
    /\ pending \in LiveArrivals

SpecLive == InitLive /\ [][Next]_vars /\ Fairness

----------------------------------------------------------------------------
(* Direct calls of the two pure functions, over drawn arguments *)

SeqsUpTo(S, n) == UNION { [1 .. k -> S] : k \in 0 .. n }

RouteWith(domains, allow, deny) ==
    [Domains |-> domains, Backend |-> "b1", SendProxy |-> ProxyNone,
     Allow |-> allow, Deny |-> deny]

\* a call of clientAllowed: the first k subnets of q are the route's allow
\* list, the others its deny list
AclCall(q, k, ip) ==
    [fn |-> "clientAllowed",
     route |-> RouteWith(<<AnyHost>>, SubSeq(q, 1, k), SubSeq(q, k + 1, Len(q))),
     ip |-> ip]

InitACL ==
    /\ Config = <<>>
    /\ listener = InitListener
    /\ pending = <<>>
    /\ sess = <<>>
    /\ \E q \in SeqsUpTo(Subnets, MaxAcl) : \E k \in 0 .. Len(q) : \E ip \in IPs :
          call = AclCall(q, k, ip)
    /\ ret = NoRet

CallClientAllowed ==
    /\ call.fn = "clientAllowed"
    /\ ~ret.set
    /\ ret' = [set |-> TRUE, val |-> clientAllowed(call.route, call.ip)]
    /\ UNCHANGED <<Config, listener, pending, sess, call>>

NextACL == CallClientAllowed

SpecACL == InitACL /\ [][NextACL]_vars

Patterns == { ExactA, EndsB, AnyHost }

MatchCalls ==
    { [fn |-> "Match", sni |-> h] : h \in SeqsUpTo({1, 2}, MaxHostLen) }

InitMatch ==
    /\ Config \in SeqsUpTo({ RouteWith(ds, <<>>, <<>>) : ds \in SeqsUpTo(Patterns, MaxDomains) },
                           MaxRoutes)
    /\ listener = InitListener
    /\ pending = <<>>
    /\ sess = <<>>
    /\ call \in MatchCalls
    /\ ret = NoRet

CallMatch ==
    /\ call.fn = "Match"
    /\ ~ret.set
    /\ ret' = [set |-> TRUE, val |-> Match(Config, call.sni)]
    /\ UNCHANGED <<Config, listener, pending, sess, call>>

NextMatch == CallMatch

SpecMatch == InitMatch /\ [][NextMatch]_vars

\* alert called on a fresh connection with any description byte, for every
\* outcome of SetWriteDeadline and of WriteTo
AlertCalls ==
    { [fn |-> "alert", desc |-> d, o |-> o, k |-> k] :
        <<d, o, k>> \in { x \in (0 .. 255) \X AlertOutcomes \X (0 .. 6) :
                            x[2] # "short" => x[3] = 0 } }

AlertConn ==
    NewSession([ip |-> 0, stream |-> <<>>, closes |-> FALSE, answers |-> TRUE,
                reply |-> <<>>, bcloses |-> FALSE, faults |-> TRUE])

InitAlert ==
    /\ Config = <<>>
    /\ listener = InitListener
    /\ pending = <<>>
    /\ sess = <<>>
    /\ call \in AlertCalls
    /\ ret = NoRet

CallAlert ==
    /\ call.fn = "alert"
    /\ ~ret.set
    /\ ret' = [set |-> TRUE, val |-> alert(AlertConn, call.desc, call.o, call.k)]
    /\ UNCHANGED <<Config, listener, pending, sess, call>>

NextAlert == CallAlert

SpecAlert == InitAlert /\ [][NextAlert]_vars

----------------------------------------------------------------------------
(* Properties *)

IsPrefix(a, b) == Len(a) <= Len(b) /\ SubSeq(b, 1, Len(a)) = a

Took(s, step, ok) == \E i \in DOMAIN s.steps : s.steps[i] = <<step, ok>>

InSeq(x, q) == \E i \in DOMAIN q : q[i] = x

\* the bytes of the client written to upstream, in the order written
RECURSIVE Payload(_)
Payload(out) ==
    IF out = <<>> THEN <<>>
    ELSE IF Head(out).kind = "data" THEN <<Head(out).val>> \o Payload(Tail(out))
    ELSE Payload(Tail(out))

Denied(s) == s.route # 0 /\ ~clientAllowed(Config[s.route], s.ip)

\* C1: a connection whose client clientAllowed refuses never dials an upstream
\* and writes nothing to one; all it writes to the client is the fatal alert
\* record with description 49 (whole when the write succeeds), and it then
\* returns, closing the client socket.
C1_DeniedNeverDials ==
    \A c \in DOMAIN sess :
        LET s == sess[c]
        IN  Denied(s) =>
              /\ s.dials = 0 /\ s.up = "nil" /\ s.upOut = <<>>
              /\ s.pc \in {"authorize", "done"}
              /\ s.pc = "authorize" => s.alerts = <<>> /\ s.cliOut = <<>> /\ s.open
              /\ s.pc = "done" =>
                    /\ s.alerts = <<tlsAccessDenied>>
                    /\ IsPrefix(s.cliOut, AlertMessage(tlsAccessDenied))
                    /\ ~s.faults => s.cliOut = AlertMessage(tlsAccessDenied)
                    /\ ~s.open

C1_Witness ==
    \E c \in DOMAIN sess :
        /\ Denied(sess[c]) /\ sess[c].pc = "done"
        /\ Len(sess[c].cliOut) = 7 /\ sess[c].cliOut[7] = 49
        /\ sess[c].upOut = <<>>

\* the longest prefix among the allow subnets containing ip, 0 when none does
BestAllow(route, ip) ==
    LET lens == {0} \cup { route.Allow[i].len :
                            i \in { j \in DOMAIN route.Allow : Contains(route.Allow[j], ip) } }
    IN  CHOOSE m \in lens : \A x \in lens : x <= m

DenyWins(route, ip) ==
    \E i \in DOMAIN route.Deny :
        /\ Contains(route.Deny[i], ip)
        /\ route.Deny[i].len >= BestAllow(route, ip)

\* C2: for a route whose allow and deny lists are not both empty,
\* clientAllowed returns false exactly when some deny subnet containing the
\* address is at least as long as the longest allow subnet containing it
\* (0 when none contains it), and true otherwise.
C2_DenyAtLeastAsSpecific ==
    (ret.set /\ call.fn = "clientAllowed"
       /\ ~(call.route.Allow = <<>> /\ call.route.Deny = <<>>))
    => (ret.val = FALSE <=> DenyWins(call.route, call.ip))

\* allow and deny hold the same subnet, which contains the address: denied
C2_Witness ==
    /\ ret.set /\ call.fn = "clientAllowed"
    /\ Len(call.route.Allow) = 1 /\ call.route.Allow = call.route.Deny
    /\ call.route.Allow[1].len = 1
    /\ Contains(call.route.Allow[1], call.ip)
    /\ ret.val = FALSE

EmptyLists(route) == route.Allow = <<>> /\ route.Deny = <<>>

\* C3: a route with empty allow and deny lists admits every address, and no
\* connection routed to it is refused: its authorize step succeeds and no
\* access-denied alert is sent.
C3_NoFilterAdmitsAll ==
    /\ \A i \in DOMAIN Config : \A ip \in IPs :
          EmptyLists(Config[i]) => clientAllowed(Config[i], ip)
    /\ \A c \in DOMAIN sess :
          (sess[c].route # 0 /\ EmptyLists(Config[sess[c].route])) =>
              /\ ~InSeq(tlsAccessDenied, sess[c].alerts)
              /\ ~Took(sess[c], "authorize", FALSE)

C3_Witness ==
    \E c \in DOMAIN sess :
        /\ sess[c].route # 0 /\ EmptyLists(Config[sess[c].route])
        /\ Took(sess[c], "authorize", TRUE)
        /\ sess[c].ip = 3

RouteMatches(route, sni) ==
    \E i \in DOMAIN route.Domains : MatchString(route.Domains[i], sni)

\* C4: Match returns the first route, in declaration order, one of whose
\* domains matches the hostname: the route returned matches, no earlier route
\* does, and a route is returned whenever some route matches.
C4_FirstMatchingRoute ==
    (ret.set /\ call.fn = "Match") =>
        LET r == ret.val.route
        IN  /\ r # 0 => /\ r \in DOMAIN Config
                        /\ RouteMatches(Config[r], call.sni)
                        /\ \A j \in 1 .. (r - 1) : ~RouteMatches(Config[j], call.sni)
            /\ r = 0 => \A j \in DOMAIN Config : ~RouteMatches(Config[j], call.sni)

\* R1 matches "a", R2 is ".*", and Match("a") returns R1
C4_Witness ==
    /\ ret.set /\ call.fn = "Match" /\ call.sni = <<1>>
    /\ Len(Config) = 2
    /\ Config[1].Domains = <<ExactA>> /\ Config[2].Domains = <<AnyHost>>
    /\ ret.val.route = 1

\* C5: when no domain of any route matches the sniffed hostname, Match
\* returns no route and an error that names the hostname; the connection
\* alerts with description 112 and returns without an authorize step and
\* without dialing.
C5_NoRouteAborts ==
    \A c \in DOMAIN sess :
        LET s == sess[c]
            nomatch == \A j \in DOMAIN Config : ~RouteMatches(Config[j], s.sni)
        IN  /\ (Took(s, "sniff", TRUE) /\ nomatch) =>
                  /\ Match(Config, s.sni).route = 0
                  /\ ~Match(Config, s.sni).err.nil
                  /\ Match(Config, s.sni).err.arg = s.sni
                  /\ s.pc \in {"clear", "keepalive", "route", "done"}
                  /\ s.route = 0 /\ s.dials = 0 /\ s.up = "nil" /\ s.upOut = <<>>
                  /\ \A ok \in BOOLEAN : ~Took(s, "authorize", ok) /\ ~Took(s, "dial", ok)
                  /\ (s.pc = "done" /\ Took(s, "clear", TRUE)) =>
                        /\ Took(s, "route", FALSE)
                        /\ s.alerts = <<tlsUnrecognizedName>>
                        /\ IsPrefix(s.cliOut, AlertMessage(tlsUnrecognizedName))
            /\ Took(s, "route", FALSE) => nomatch

C5_Witness ==
    \E c \in DOMAIN sess :
        /\ Took(sess[c], "route", FALSE)
        /\ sess[c].sni = <<1, 1>>
        /\ sess[c].cliOut = AlertMessage(112)
        /\ sess[c].pc = "done"

\* C6: a connection task that has returned has closed the client socket, and
\* has closed the upstream socket exactly when its dial succeeded, whatever
\* step it returned from and whatever became of its alert.
C6_ReturnClosesSockets ==
    \A c \in DOMAIN sess :
        sess[c].pc = "done" =>
            /\ ~sess[c].open
            /\ sess[c].up # "open"
            /\ sess[c].up = "closed" <=> Took(sess[c], "dial", TRUE)

\* returned from a failed replay whose alert could not be written
C6_Witness ==
    \E c \in DOMAIN sess :
        /\ sess[c].pc = "done"
        /\ Took(sess[c], "replay", FALSE)
        /\ sess[c].alerts = <<tlsInternalError>> /\ sess[c].cliOut = <<>>
        /\ sess[c].up = "closed" /\ ~sess[c].open

StepOrder ==
    <<"deadline", "sniff", "clear", "keepalive", "route", "authorize", "dial",
      "proxy", "replay", "relay">>

StepOrderNoProxy ==
    <<"deadline", "sniff", "clear", "keepalive", "route", "authorize", "dial",
      "replay", "relay">>

StepNames(s) == [i \in DOMAIN s.steps |-> s.steps[i][1]]

\* the bytes extractSNI consumed from the client's stream
Sniffed(s) ==
    LET stream == s.cread \o s.cin
    IN  SubSeq(stream, 1, extractSNI(stream, s.closes).n)

\* the steps taken are an initial part of the pipeline, the proxy-header step
\* present exactly for a route that asks for it
InPipelineOrder(s) ==
    IF s.route # 0 /\ Config[s.route].SendProxy = ProxyNone
    THEN IsPrefix(StepNames(s), StepOrderNoProxy)
    ELSE IsPrefix(StepNames(s), StepOrder)

\* what the order means on the wire: the PROXY header precedes every client
\* byte on the upstream socket, the copies start only after the whole
\* handshake was replayed, and nothing is read from the upstream before that
WireOrder(s) ==
    /\ \A i, j \in DOMAIN s.upOut :
          (s.upOut[i].kind = "data" /\ s.upOut[j].kind # "data") => j < i
    /\ (s.c2u # "idle" \/ s.u2c # "idle") =>
          /\ Took(s, "replay", TRUE)
          /\ s.buf = <<>>
    /\ Took(s, "replay", TRUE) => IsPrefix(Sniffed(s), Payload(s.upOut))
    /\ (s.uread # <<>> \/ Len(Payload(s.upOut)) > Len(Sniffed(s))) => Took(s, "replay", TRUE)

\* C7 as claimed: every step starts only after the previous one succeeded
C7_StrictOrderAllSucceeded ==
    \A c \in DOMAIN sess :
        /\ InPipelineOrder(sess[c])
        /\ \A i \in 1 .. (Len(sess[c].steps) - 1) : sess[c].steps[i][2]
        /\ WireOrder(sess[c])

\* C7, amended: the steps of a connection run in the order set-deadline,
\* sniff, clear-deadline, keepalive, route, authorize, dial, proxy-header,
\* replay, relay, each starting only after the previous one completed, and
\* completed successfully unless it is keepalive, whose errors are dropped;
\* hence the PROXY header precedes the replayed bytes on the upstream, the
\* replay is whole before a copy starts, and no upstream byte is read before.
C7_StrictOrder ==
    \A c \in DOMAIN sess :
        /\ InPipelineOrder(sess[c])
        /\ \A i \in 1 .. (Len(sess[c].steps) - 1) :
              sess[c].steps[i][2] \/ sess[c].steps[i][1] = "keepalive"
        /\ WireOrder(sess[c])

\* a relayed connection whose upstream got the header, then the handshake
C7_Witness ==
    \E c \in DOMAIN sess :
        /\ sess[c].pc = "wait"
        /\ StepNames(sess[c]) = StepOrder
        /\ sess[c].upOut = <<Header("v1")>> \o DataItems(Hello(<<2>>)) \o DataItems(ClientData(1))
        /\ sess[c].uread # <<>>

\* C8: the client bytes written to the upstream are at all times an initial
\* part of the bytes read from the client, and for a connection that was
\* replayed they begin with every byte the sniff consumed; the bytes written
\* to its client are an initial part of the bytes read from the upstream.
C8_RelayPreservesBytes ==
    \A c \in DOMAIN sess :
        LET s == sess[c]
        IN  /\ IsPrefix(Payload(s.upOut), s.cread)
            /\ Took(s, "replay", TRUE) =>
                  /\ IsPrefix(Sniffed(s), Payload(s.upOut))
                  /\ IsPrefix(s.cliOut, s.uread)
                  /\ IsPrefix(s.uread, s.reply)

C8_Witness ==
    \E c \in DOMAIN sess :
        /\ sess[c].pc = "wait"
        /\ Payload(sess[c].upOut) = Hello(<<1>>) \o ClientData(1)
        /\ sess[c].cliOut = BackendData(1)

Running(task) == task \in {"read", "write"}

\* C9: the two copies start together; while either is running the task waits
\* and both sockets stay open; when both have finished the task can return,
\* and a relayed task that returned has both copies finished and both sockets
\* closed.
C9_WaitsForBothCopies ==
    \A c \in DOMAIN sess :
        LET s == sess[c]
        IN  /\ (s.c2u = "idle") <=> (s.u2c = "idle")
            /\ (Running(s.c2u) \/ Running(s.u2c)) =>
                  s.pc = "wait" /\ s.open /\ s.up = "open"
            /\ (s.pc = "wait" /\ s.c2u = "done" /\ s.u2c = "done") => ENABLED Wait(c)
            /\ (s.pc = "done" /\ Took(s, "relay", TRUE)) =>
                  s.c2u = "done" /\ s.u2c = "done" /\ ~s.open /\ s.up = "closed"

\* one copy has finished, the other still runs, and the task waits
C9_Witness ==
    \E c \in DOMAIN sess :
        /\ sess[c].pc = "wait" /\ sess[c].c2u = "done" /\ Running(sess[c].u2c)
        /\ sess[c].open /\ sess[c].up = "open"

\* C10: while the listener listens, a client that has connected is accepted
\* whatever the earlier connections are doing, and an accepted connection's
\* task starts whatever the others are doing.
C10_AcceptNeverWaits ==
    /\ (listener.state = "listening" /\ pending # <<>>) => ENABLED Accept
    /\ \A c \in DOMAIN sess : sess[c].pc = "start" => ENABLED SetReadDeadline(c)

\* the first connection is stalled in its relay, the second in its sniff
C10_Witness ==
    /\ Len(sess) = 2
    /\ sess[1].pc = "wait" /\ sess[1].c2u = "read" /\ sess[1].u2c = "read"
    /\ ~sess[1].closes /\ ~sess[1].bcloses
    /\ sess[2].pc = "sniff"

\* C11: an error of net.Listen or of l.Accept ends ListenAndServe: it returns
\* that error and no other, the listening socket is closed when one was opened,
\* and from then on the listener neither changes nor starts another dispatch
\* task; a step of a dispatch task, failing or not, leaves the listener as it
\* was, so a waiting connection can still be accepted.
C11_AcceptErrorTerminal ==
    [][ /\ (listener.state = "returned"
              => listener' = listener /\ pending' = pending /\ Len(sess') = Len(sess))
        /\ (listener.state = "init" /\ listener'.state = "returned"
              => listener'.err = "listen")
        /\ (listener.state = "listening" /\ listener'.state = "returned"
              => listener'.err = "accept" /\ listener'.closed)
        /\ (listener'.err # "" => listener'.state = "returned")
        /\ ((\E c \in DOMAIN sess : sess'[c] # sess[c]) => listener' = listener)
        /\ (listener.state = "listening" /\ pending # <<>> => ENABLED Accept)
      ]_vars

C11_Witness ==
    /\ listener = [state |-> "returned", err |-> "accept", closed |-> TRUE]
    /\ pending # <<>>
    /\ \E c \in DOMAIN sess : sess[c].pc = "done" /\ sess[c].alerts # <<>>

\* the step at which a dispatch task that never started its relay returned
FailedStep(s) == s.steps[Len(s.steps)]

AbortedBeforeRelay(s) == s.pc = "done" /\ ~Took(s, "relay", TRUE)

\* C12: a dispatch task that returns before the relay returns at a step that
\* failed, and it called alert exactly once: with description 112 if and only
\* if that step is the route resolution, which found no route; with 49 if and
\* only if it is the access check, which refused the client; with 80 for every
\* other step.  The client socket is closed only by such a return, never
\* without the call of alert.
C12_AlertByFailingStep ==
    \A c \in DOMAIN sess :
        LET s == sess[c]
        IN  /\ AbortedBeforeRelay(s) =>
                  /\ s.steps # <<>>
                  /\ FailedStep(s)[2] = FALSE
                  /\ Len(s.alerts) = 1
                  /\ (s.alerts[1] = 112) <=> (FailedStep(s)[1] = "route")
                  /\ (s.alerts[1] = 49) <=> (FailedStep(s)[1] = "authorize")
                  /\ (s.alerts[1] = 80) <=>
                        (FailedStep(s)[1] \in {"deadline", "sniff", "clear", "dial",
                                               "proxy", "replay"})
                  /\ FailedStep(s)[1] = "route" =>
                        \A j \in DOMAIN Config : ~RouteMatches(Config[j], s.sni)
                  /\ FailedStep(s)[1] = "authorize" => Denied(s)
            /\ (~s.open /\ ~Took(s, "relay", TRUE)) => (s.pc = "done" /\ s.alerts # <<>>)

C12_Witness ==
    \E c \in DOMAIN sess : \E d \in DOMAIN sess :
        /\ AbortedBeforeRelay(sess[c]) /\ sess[c].alerts = <<80>>
        /\ FailedStep(sess[c]) = <<"sniff", FALSE>>
        /\ AbortedBeforeRelay(sess[d]) /\ sess[d].alerts = <<49>>
        /\ FailedStep(sess[d]) = <<"authorize", FALSE>>

\* C13: for every description byte d, alert called with d writes to the
\* connection nothing but the record 21, 3, 0, 0, 2, 2, d: all seven bytes
\* when WriteTo succeeds, the first bytes of it when WriteTo fails part-way;
\* any byte is written only with the write deadline set, and when
\* SetWriteDeadline fails nothing at all is written.
C13_AlertRecord ==
    ret.set =>
        LET out == ret.val.cliOut
            record == <<21, 3, 0, 0, 2, 2, call.desc>>
        IN  /\ IsPrefix(out, record)
            /\ call.o = "sent" => (out = record /\ Len(out) = 7)
            /\ out # <<>> => ret.val.wdl
            /\ call.o = "nodeadline" => (out = <<>> /\ ~ret.val.wdl)
            /\ ret.val.alerts = <<call.desc>>

C13_Witness ==
    /\ ret.set
    /\ call.desc = 255 /\ call.o = "sent"
    /\ ret.val.cliOut = <<21, 3, 0, 0, 2, 2, 255>>

\* C14: while a copy of the relay is running the client socket carries no
\* read deadline and no write deadline: the read deadline lasts from its
\* setting to its clearing or to the return, and the write deadline is set
\* only by alert, after which the task has returned.
C14_NoDeadlineInRelay ==
    \A c \in DOMAIN sess :
        LET s == sess[c]
        IN  /\ (Running(s.c2u) \/ Running(s.u2c)) => (~s.rdl /\ ~s.wdl)
            /\ s.rdl => s.pc \in {"sniff", "clear", "done"}
            /\ s.wdl => (s.pc = "done" /\ s.alerts # <<>>)
            /\ (s.rdl /\ s.pc = "done") => ~Took(s, "clear", TRUE)

C14_Witness ==
    \E c \in DOMAIN sess :
        /\ Running(sess[c].c2u) /\ Running(sess[c].u2c)
        /\ Took(sess[c], "deadline", TRUE) /\ Took(sess[c], "clear", TRUE)
        /\ sess[c].uread # <<>>
        /\ ~sess[c].rdl /\ ~sess[c].wdl

\* no step is taken twice, and the upstream is dialled at most once
EachStepOnce(s) ==
    /\ \A i, j \in DOMAIN s.steps : s.steps[i][1] = s.steps[j][1] => i = j
    /\ s.dials <= 1
    /\ s.dials = Cardinality({ i \in DOMAIN s.steps : s.steps[i][1] = "dial" })
    /\ Len(Payload(s.upOut)) <= Len(s.cread)

\* the steps among skip aside, a step that failed is the last step taken and
\* the task has returned
FailureEnds(s, skip) ==
    \A i \in DOMAIN s.steps :
        (s.steps[i][2] = FALSE /\ s.steps[i][1] \notin skip) =>
            (i = Len(s.steps) /\ s.pc = "done")

\* C15 as stated: every step is taken at most once, and after any step that
\* failed, the keepalive step included, no later step is taken.
C15_OnePassAnyFailure ==
    \A c \in DOMAIN sess : EachStepOnce(sess[c]) /\ FailureEnds(sess[c], {})

\* C15: a connection goes through the pipeline once: its handshake is sniffed
\* at most once, its route resolved at most once, its upstream dialled at
\* most once, its handshake replayed at most once; and after a step other
\* than keepalive failed no later step is taken.  A failure to enable
\* keepalive is discarded and the route step follows it.
C15_OnePass ==
    \A c \in DOMAIN sess : EachStepOnce(sess[c]) /\ FailureEnds(sess[c], {"keepalive"})

C15_Witness ==
    \E c \in DOMAIN sess :
        /\ sess[c].pc = "done"
        /\ Took(sess[c], "keepalive", FALSE)
        /\ FailedStep(sess[c]) = <<"dial", FALSE>>
        /\ sess[c].dials = 1 /\ sess[c].up = "nil"

Encoded(s) == \E ok \in BOOLEAN : Took(s, "proxy", ok)

\* C17: proxyHeader is called for a connection that got past its dial exactly
\* when its route's SendProxy is not none; it is called at most once, after
\* the dial succeeded and before any byte of the client is written to the
\* upstream; when it fails the task calls alert with 80 and returns, and no
\* byte of the client is ever written to the upstream.
C17_ProxyHeaderOnceBeforePayload ==
    \A c \in DOMAIN sess :
        LET s == sess[c]
            mode == Config[s.route].SendProxy
            calls == { i \in DOMAIN s.steps : s.steps[i][1] = "proxy" }
        IN  /\ s.route = 0 => (~Encoded(s) /\ s.upOut = <<>>)
            /\ s.route # 0 =>
                  /\ Encoded(s) => (mode # ProxyNone /\ Took(s, "dial", TRUE))
                  /\ (Took(s, "dial", TRUE) /\ s.pc # "proxy") =>
                        (Encoded(s) <=> mode # ProxyNone)
                  /\ Cardinality(calls) <= 1
                  /\ \A i \in calls : i = Len(s.steps) \/ s.steps[i + 1][1] = "replay"
                  /\ \A i \in DOMAIN s.upOut :
                        s.upOut[i].kind # "data" => (i = 1 /\ s.upOut[i].val = mode)
                  /\ (s.upOut # <<>> /\ mode # ProxyNone) => s.upOut[1].kind # "data"
                  /\ mode = ProxyNone => s.upOut = DataItems(Payload(s.upOut))
                  /\ Took(s, "proxy", FALSE) =>
                        /\ s.pc = "done" /\ s.alerts = <<80>>
                        /\ Payload(s.upOut) = <<>>
                        /\ FailedStep(s) = <<"proxy", FALSE>>

C17_Witness ==
    \E c \in DOMAIN sess :
        /\ Took(sess[c], "proxy", TRUE)
        /\ Len(sess[c].upOut) > 1 + Len(Sniffed(sess[c]))
        /\ sess[c].upOut[1] = Header("v2")
        /\ sess[c].upOut[2].kind = "data"

NoAllowContains(route, ip) ==
    \A i \in DOMAIN route.Allow : ~Contains(route.Allow[i], ip)

SomeDenyContains(route, ip) ==
    \E i \in DOMAIN route.Deny : Contains(route.Deny[i], ip)

\* C18: an allow list does not restrict by itself: an address that no allow
\* subnet contains is admitted by clientAllowed exactly when no deny subnet
\* contains it, however long the allow list is; any deny subnet containing
\* it, one of prefix length 0 included, refuses it.
C18_AllowListAloneAdmits ==
    (ret.set /\ call.fn = "clientAllowed") =>
        (NoAllowContains(call.route, call.ip) =>
            (ret.val <=> ~SomeDenyContains(call.route, call.ip)))

C18_Witness ==
    /\ ret.set /\ call.fn = "clientAllowed"
    /\ call.route.Allow = <<[ip |-> 0, len |-> 1]>> /\ call.route.Deny = <<>>
    /\ call.ip = 3
    /\ ret.val = TRUE

\* C19: alert is called at most once for a connection, and only by a task
\* that returns without having started the relay; a connection whose relay
\* started has had nothing written to its client socket by alert, and all
\* that is ever written to it are the bytes read from the upstream, in order.
C19_NoAlertInRelay ==
    \A c \in DOMAIN sess :
        LET s == sess[c]
            relayed == Took(s, "relay", TRUE) \/ s.c2u # "idle" \/ s.u2c # "idle"
        IN  /\ Len(s.alerts) <= 1
            /\ s.alerts # <<>> =>
                  /\ ~relayed /\ s.pc = "done"
                  /\ IsPrefix(s.cliOut, <<21, 3, 0, 0, 2, 2, s.alerts[1]>>)
            /\ relayed =>
                  /\ s.alerts = <<>> /\ ~s.wdl
                  /\ IsPrefix(s.cliOut, s.uread)
                  /\ s.cliOut \o s.u2cHold \in { s.uread, SubSeq(s.uread, 1, Len(s.uread) - 1) }
            /\ (~relayed /\ s.alerts = <<>>) => s.cliOut = <<>>

C19_Witness ==
    \E c \in DOMAIN sess :
        /\ sess[c].pc = "done" /\ Took(sess[c], "relay", TRUE)
        /\ sess[c].alerts = <<>>
        /\ sess[c].cliOut # <<>> /\ sess[c].cliOut = sess[c].uread

\* the client has not sent a whole ClientHello record and sends no more
NeverCompletesHello(s) ==
    extractSNI(s.cin, s.closes).err \in {"i/o timeout", "EOF"}

AbortedAt(s, step) ==
    /\ s.pc = "done" /\ ~s.open
    /\ FailedStep(s) = <<step, FALSE>>
    /\ s.alerts = <<80>>

\* the task waits in the sniff for a client that never completes its
\* ClientHello, or in the dial for a backend that never answers
Held(s) ==
    \/ s.pc = "sniff" /\ NeverCompletesHello(s)
    \/ s.pc = "dial" /\ ~s.answers

\* the task returned from the step it was held in: a task held in the sniff
\* never reaches the dial, and a task held in the dial has passed the sniff
Released(s) ==
    \/ AbortedAt(s, "sniff")
    \/ AbortedAt(s, "dial") /\ ~s.answers

\* C20: under fair scheduling of the dispatch task, a connection in the sniff
\* step whose client never completes its ClientHello eventually returns from
\* that step with alert 80 attempted and the client socket closed, and a
\* connection in the dial step whose backend never answers eventually returns
\* from that step in the same way.
C20_SilentClientReleased ==
    \A c \in Conns :
        (c \in DOMAIN sess /\ Held(sess[c])) ~> (c \in DOMAIN sess /\ Released(sess[c]))

C20_Witness ==
    \E c \in DOMAIN sess :
        /\ AbortedAt(sess[c], "sniff")
        /\ sess[c].cread = <<>> /\ sess[c].cin = <<>> /\ ~sess[c].closes
        /\ Took(sess[c], "deadline", TRUE)

====
